---- MODULE Spec2Model ----
(***************************************************************************)
(* Model of the Server Temperature Monitor plugin (ServerTemp_server.js).  *)
(*                                                                         *)
(* The server side is a single-threaded Node.js module.  Its top level     *)
(* runs once (Startup), after which the event loop runs, in any order:     *)
(*   - the setInterval timer callback (TimerTick -> updateTemperature),    *)
(*   - the completion callback of a pending child_process.exec             *)
(*     (ExecCallback -> the probe's parser -> tryNextMethod's wrapper or   *)
(*     updateTemperature's callback),                                      *)
(*   - the GET /server_temp handler (HttpGet).                             *)
(* Every handler runs to completion; exec never calls back synchronously.  *)
(* Nothing in the code ties the timer to the completion of a probe, so a   *)
(* tick may arrive while an exec of an earlier cycle is still pending.     *)
(*                                                                         *)
(* The client side (ServerTemp.js) runs in a browser: init arms its timers, *)
(* each firing of a timer calls fetchTemperature, and the promise chain of  *)
(* a fetch runs when the fetch settles (FetchRejected, ResponseArrives).    *)
(*                                                                         *)
(* JavaScript values are tagged records: Null, NaN, Num(v), Str(s).        *)
(* Floating point temperatures are fixed point, in thousandths of a degree.*)
(***************************************************************************)
EXTENDS Integers, Sequences, FiniteSets, Bags, TLC

VARIABLES
    pc,                   \* "load" before the module's top level has run, then "running"
    consoleLogged,        \* line 23
    temperatureSupported, \* line 24
    updateIntervalId,     \* line 25: Null or Str("timer")
    failedMethods,        \* lines 28-32
    workingMethod,        \* line 35: NoMethod or a method name
    currentTemperature,   \* lines 38-43
    pending,              \* exec calls whose callback has not run yet
    now,                  \* the clock Date.now() reads; it may advance with each event
    logs,                 \* messages handed to logInfo / logWarn / logError
    response,             \* what the last GET /server_temp was answered with
    cycles,               \* history: one entry per readTemperature call: the working method
                          \*   it found, the probes it invoked, what each called back
                          \*   with, and the results it handed to updateTemperature
    firstResult,          \* history: result of the first cycle that completed
    reportedFailure,      \* history: methods whose probe has called back with an error
    disabledRecord,       \* history: the cache record written by the disabling cycle
    polls,                \* client: fetchTemperature calls so far
    fetches,              \* client: the fetches that have not settled, a bag: sent, or
                          \*   answered with a response that has yet to arrive
    display,              \* client: the element server-temp-display
    lastPoll              \* history: the last poll result the client processed

vars == <<pc, consoleLogged, temperatureSupported, updateIntervalId, failedMethods,
          workingMethod, currentTemperature, pending, now, logs, response,
          cycles, firstResult, reportedFailure, disabledRecord,
          polls, fetches, display, lastPoll>>

client == <<polls, fetches, display, lastPoll>>

----------------------------------------------------------------------------
\* Bounds of the model

MaxCycles == 2         \* readTemperature calls (startup + timer ticks)
MaxCyclesQuiet == 4    \* the same, when no request is served and the clock stands still
MaxCyclesFair == 2     \* the same, when moreover every probe calls back
MaxNow == 1            \* Date.now() reads 0..MaxNow
MaxRequests == 1       \* HTTP requests answered
MaxPolls == 2          \* fetchTemperature calls

----------------------------------------------------------------------------
\* JavaScript values

Null == [t |-> "null"]
NaN == [t |-> "nan"]
Num(v) == [t |-> "num", v |-> v]
Str(s) == [t |-> "str", s |-> s]

Methods == {"vcgencmd", "thermal_zone", "sensors"}
NoMethod == "null"

\* if (x) on a string-or-null value
Truthy(x) == x # Null /\ x # Str("")

----------------------------------------------------------------------------
\* Text.  A string the code parses is a sequence of one-character strings.

Digits == {"0", "1", "2", "3", "4", "5", "6", "7", "8", "9"}
DigitOrDot == Digits \cup {"."}
Space == {" ", "\n", "\t"}

DigitVal(c) ==
    CASE c = "0" -> 0 [] c = "1" -> 1 [] c = "2" -> 2 [] c = "3" -> 3 [] c = "4" -> 4
      [] c = "5" -> 5 [] c = "6" -> 6 [] c = "7" -> 7 [] c = "8" -> 8 [] c = "9" -> 9

\* Length of the longest run of characters of set cs that starts at s[i]
RECURSIVE Run(_, _, _)
Run(s, i, cs) == IF i <= Len(s) /\ s[i] \in cs THEN 1 + Run(s, i + 1, cs) ELSE 0

\* Does the literal lit occur in s at position i?
At(s, i, lit) ==
    /\ i + Len(lit) - 1 <= Len(s)
    /\ \A k \in 1..Len(lit) : s[i + k - 1] = lit[k]

\* Value of a run of digits, most significant first
RECURSIVE IntOf(_)
IntOf(ds) == IF ds = <<>> THEN 0 ELSE 10 * IntOf(SubSeq(ds, 1, Len(ds) - 1)) + DigitVal(ds[Len(ds)])

\* A run of fraction digits in thousandths (digits past the third are dropped)
FracOf(ds) ==
    LET d(k) == IF k <= Len(ds) THEN DigitVal(ds[k]) ELSE 0
    IN  100 * d(1) + 10 * d(2) + d(3)

\* parseFloat(s): leading white space is skipped, then the longest prefix
\* digits [. digits] is read; NaN when that prefix holds no digit.  The inputs
\* of this model carry neither a sign nor an exponent.
parseFloat(s) ==
    LET b == 1 + Run(s, 1, Space)
        ni == Run(s, b, Digits)
        dot == b + ni <= Len(s) /\ s[b + ni] = "."
        nf == IF dot THEN Run(s, b + ni + 1, Digits) ELSE 0
    IN  IF ni + nf = 0 THEN NaN
        ELSE Num(1000 * IntOf(SubSeq(s, b, b + ni - 1))
                 + FracOf(SubSeq(s, b + ni + 1, b + ni + nf)))

isNaN(x) == x = NaN

\* stdout.match(/temp=([\d.]+)/): the capture of the leftmost match, or Null
TEMP_EQ == <<"t", "e", "m", "p", "=">>
VcgencmdMatch(stdout) ==
    LET hits == {i \in 1..Len(stdout) : At(stdout, i, TEMP_EQ) /\ Run(stdout, i + 5, DigitOrDot) > 0}
    IN  IF hits = {} THEN Null
        ELSE LET i == CHOOSE h \in hits : \A g \in hits : h <= g
             IN  Str(SubSeq(stdout, i + 5, i + 4 + Run(stdout, i + 5, DigitOrDot)))

\* stdout.match(/Core \d+:\s+\+([\d.]+)°C/): the capture of the leftmost match, or Null.
\* Each of \d+, \s+ and [\d.]+ is followed by a character outside its class, so
\* the greedy run is the only candidate.  SensorsCapture(stdout, i) is the place
\* and length of the capture of a match starting at i, or <<0, 0>>.
CORE_ == <<"C", "o", "r", "e", " ">>
DEG_C == <<"°", "C">>
SensorsCapture(stdout, i) ==
    LET d == i + 5
        nd == Run(stdout, d, Digits)
        w == d + nd + 1
        nw == Run(stdout, w, Space)
        v == w + nw + 1
        nv == Run(stdout, v, DigitOrDot)
    IN  IF /\ At(stdout, i, CORE_)
           /\ nd > 0
           /\ At(stdout, d + nd, <<":">>)
           /\ nw > 0
           /\ At(stdout, w + nw, <<"+">>)
           /\ nv > 0
           /\ At(stdout, v + nv, DEG_C)
        THEN <<v, nv>> ELSE <<0, 0>>
SensorsMatch(stdout) ==
    LET hits == {i \in 1..Len(stdout) : SensorsCapture(stdout, i)[2] > 0}
    IN  IF hits = {} THEN Null
        ELSE LET i == CHOOSE h \in hits : \A g \in hits : h <= g
                 c == SensorsCapture(stdout, i)
             IN  Str(SubSeq(stdout, c[1], c[1] + c[2] - 1))

----------------------------------------------------------------------------
\* The program state as one record, so that a JavaScript function is an
\* operator from state to state.  St is the current state.

St == [consoleLogged |-> consoleLogged,
       temperatureSupported |-> temperatureSupported,
       updateIntervalId |-> updateIntervalId,
       failedMethods |-> failedMethods,
       workingMethod |-> workingMethod,
       currentTemperature |-> currentTemperature,
       pending |-> pending,
       now |-> now,
       logs |-> logs,
       cycles |-> cycles,
       firstResult |-> firstResult,
       reportedFailure |-> reportedFailure,
       disabledRecord |-> disabledRecord]

\* logInfo / logWarn / logError.  An entry keeps the severity, the fixed part
\* of the message and the value consoleLogged had when it was emitted.
Log(s, level, msg) ==
    [s EXCEPT !.logs = @ \cup {[level |-> level, msg |-> msg, late |-> s.consoleLogged]}]

\* if (!consoleLogged) logXxx(...)
LogOnce(s, level, msg) == IF ~s.consoleLogged THEN Log(s, level, msg) ELSE s

----------------------------------------------------------------------------
\* Method probes.  r is what exec hands to its callback: r.error is Null or
\* the Error of the child process, r.stdout its standard output.  Each probe
\* yields the pair it calls back with and the message it logs.

tryVcgencmd(r) ==
    LET match == IF r.error = Null /\ r.stdout # <<>> THEN VcgencmdMatch(r.stdout) ELSE Null
    IN  IF match # Null
        THEN [error |-> Null, temp |-> parseFloat(match.s),
              level |-> "info", msg |-> "Temperature read via vcgencmd"]
        ELSE [error |-> Str("vcgencmd failed"), temp |-> Null,
              level |-> "warn", msg |-> "vcgencmd failed"]

tryThermalZone(r) ==
    LET parsed == IF r.error = Null /\ r.stdout # <<>> THEN parseFloat(r.stdout) ELSE NaN
        temp == IF isNaN(parsed) THEN NaN ELSE Num(parsed.v \div 1000)
    IN  IF ~isNaN(temp)
        THEN [error |-> Null, temp |-> temp,
              level |-> "info", msg |-> "Temperature read via thermal_zone0"]
        ELSE [error |-> Str("thermal_zone0 failed"), temp |-> Null,
              level |-> "warn", msg |-> "thermal_zone0 failed"]

trySensors(r) ==
    LET match == IF r.error = Null /\ r.stdout # <<>> THEN SensorsMatch(r.stdout) ELSE Null
    IN  IF match # Null
        THEN [error |-> Null, temp |-> parseFloat(match.s),
              level |-> "info", msg |-> "Temperature read via sensors"]
        ELSE [error |-> Str("sensors failed"), temp |-> Null,
              level |-> "warn", msg |-> "sensors failed"]

Probe(m, r) ==
    CASE m = "vcgencmd" -> tryVcgencmd(r)
      [] m = "thermal_zone" -> tryThermalZone(r)
      [] m = "sensors" -> trySensors(r)

\* exec(...): the call is pending until the event loop runs its callback.
\* c is the cycle (readTemperature call) it belongs to; via tells which
\* callback the probe was given: tryNextMethod's wrapper ("chain") or
\* updateTemperature's callback itself ("direct").
Exec(s, c, m, via) ==
    [s EXCEPT !.pending = @ \cup {[cycle |-> c, method |-> m, via |-> via]},
              !.cycles[c].probes = Append(@, m)]

----------------------------------------------------------------------------
\* updateTemperature's callback (lines 177-215)

\* Mutant: the failure record is written without its error message
FailureRecordWithoutError(msg, t) ==
    [temperature |-> Null, timestamp |-> Num(t), unit |-> "C", error |-> Null]

FailureRecord(msg, t) ==
    [temperature |-> Null, timestamp |-> Num(t), unit |-> "C", error |-> msg]

SuccessRecord(temp, t) ==
    [temperature |-> temp, timestamp |-> Num(t), unit |-> "C", error |-> Null]

\* Mutant: every failed attempt is taken for the first one
AnyAttempt(s) == TRUE

\* line 188: "If this is the first attempt and it failed"
FirstAttempt(s) == ~s.consoleLogged

\* Mutant: the flag is cleared but the interval timer is left running
DisableKeepingTimer(s) ==
    Log([s EXCEPT !.temperatureSupported = FALSE, !.disabledRecord = s.currentTemperature],
        "warn", "Temperature reading not supported on this system, monitoring disabled.")

\* lines 189-194
Disable(s) ==
    LET s1 == [s EXCEPT !.temperatureSupported = FALSE]
        s2 == IF s1.updateIntervalId # Null THEN [s1 EXCEPT !.updateIntervalId = Null] ELSE s1
    IN  Log([s2 EXCEPT !.disabledRecord = s2.currentTemperature],
            "warn", "Temperature reading not supported on this system, monitoring disabled.")

\* History of the cycle's completion; no program variable is touched.
Completed(s, c, result) ==
    [s EXCEPT !.cycles[c].results = Append(@, result),
              !.firstResult = IF @ = "none" THEN result ELSE @]

\* Mutant: a reading is stored into the record in place, field by field, and
\* the error and timestamp fields are left as they were
updateTemperatureCallbackInPlace(s, c, error, temp) ==
    IF error # Null
    THEN LET s1 == Log(s, "warn", error.s)
             s2 == [s1 EXCEPT !.currentTemperature = FailureRecord(error, s1.now)]
             s3 == IF FirstAttempt(s2) THEN Disable(s2) ELSE s2
         IN  Completed([s3 EXCEPT !.consoleLogged = TRUE], c, "error")
    ELSE LET s1 == [s EXCEPT !.currentTemperature.temperature = temp]
             s2 == LogOnce(s1, "info", "Temperature updated")
         IN  Completed([s2 EXCEPT !.consoleLogged = TRUE], c, "ok")

updateTemperatureCallback(s, c, error, temp) ==
    IF error # Null
    THEN LET s1 == Log(s, "warn", error.s)
             s2 == [s1 EXCEPT !.currentTemperature = FailureRecord(error, s1.now)]
             s3 == IF FirstAttempt(s2) THEN Disable(s2) ELSE s2
         IN  Completed([s3 EXCEPT !.consoleLogged = TRUE], c, "error")
    ELSE LET s1 == [s EXCEPT !.currentTemperature = SuccessRecord(temp, s.now)]
             s2 == LogOnce(s1, "info", "Temperature updated")
             s3 == IF s2.workingMethod # NoMethod THEN LogOnce(s2, "info", "Using method") ELSE s2
         IN  Completed([s3 EXCEPT !.consoleLogged = TRUE], c, "ok")

----------------------------------------------------------------------------
\* Acquisition coordinator (lines 49-110)

\* Mutant: the thermal zone is tried before vcgencmd
NextUntriedThermalFirst(failed) ==
    IF ~failed["thermal_zone"] THEN "thermal_zone"
    ELSE IF ~failed["vcgencmd"] THEN "vcgencmd"
    ELSE IF ~failed["sensors"] THEN "sensors"
    ELSE "null"

\* The else-if chain of tryNextMethod: the first method not marked failed,
\* or NoMethod when all three are.
NextUntried(failed) ==
    IF ~failed["vcgencmd"] THEN "vcgencmd"
    ELSE IF ~failed["thermal_zone"] THEN "thermal_zone"
    ELSE IF ~failed["sensors"] THEN "sensors"
    ELSE NoMethod

tryNextMethod(s, c) ==
    LET m == NextUntried(s.failedMethods)
    IN  IF m # NoMethod
        THEN Exec(s, c, m, "chain")
        ELSE updateTemperatureCallback(
                 Log(s, "error", "All temperature reading methods failed"),
                 c, Str("Unable to read temperature from system"), Null)

\* Mutant: marking a method forgets the marks of the others
MarkOnlyFailed(failed, m) == [x \in Methods |-> x = m]

\* Mutant: the failure of a method is not recorded
MarkNothing(failed, m) == failed

\* failedMethods.<m> = true
MarkFailed(failed, m) == [failed EXCEPT ![m] = TRUE]

\* Mutant: a probe that succeeds is not memoized
tryNextMethodCallbackForgetting(s, c, m, error, temp) ==
    IF error = Null
    THEN updateTemperatureCallback(s, c, Null, temp)
    ELSE tryNextMethod([s EXCEPT !.failedMethods = MarkFailed(@, m)], c)

\* The callback tryNextMethod gives probe m (lines 76-84, 86-94, 96-104)
tryNextMethodCallback(s, c, m, error, temp) ==
    IF error = Null
    THEN updateTemperatureCallback([s EXCEPT !.workingMethod = m], c, Null, temp)
    ELSE tryNextMethod([s EXCEPT !.failedMethods = MarkFailed(@, m)], c)

readTemperature(s, c) ==
    LET s1 == LogOnce(s, "info", "Attempting to read temperature...")
    IN  IF s1.workingMethod # NoMethod /\ s1.workingMethod \in Methods
        THEN Exec(s1, c, s1.workingMethod, "direct")
        ELSE tryNextMethod(s1, c)

\* updateTemperature (lines 171-216).  The cycle it starts is entered in the
\* history with the working method it found.
updateTemperature(s) ==
    IF ~s.temperatureSupported
    THEN s
    ELSE LET c == Len(s.cycles) + 1
             s1 == [s EXCEPT !.cycles = Append(@, [wm |-> s.workingMethod,
                                                   probes |-> <<>>,
                                                   outcomes |-> <<>>,
                                                   results |-> <<>>])]
         IN  readTemperature(s1, c)

----------------------------------------------------------------------------
\* GET /server_temp (lines 231-239)

\* req.get('X-Plugin-Name') || 'NoPlugin': header is Null when the request has none
PluginHeader(header) == IF Truthy(header) THEN header ELSE Str("NoPlugin")

\* Mutant: any header value is accepted
AuthorisedIfPresent(header) == PluginHeader(header) # Str("NoPlugin")

Authorised(header) == PluginHeader(header) = Str("ServerTempPlugin")

\* The handler: the status it sets (200 unless res.status is called) and the
\* object it hands to res.json
ServerTempHandler(header, cache) ==
    IF Authorised(header)
    THEN [status |-> 200, json |-> cache]
    ELSE [status |-> 403, json |-> [error |-> Str("Unauthorised")]]

\* getTemperatureData (lines 222-224), the module's export
getTemperatureData == currentTemperature

----------------------------------------------------------------------------
\* The client (ServerTemp.js).  ADMIN_ONLY is false, so the administrator
\* test never returns early.

\* The header fetchTemperature sends (line 36)
ClientHeader == Str("ServerTempPlugin")

\* What JSON.stringify followed by JSON.parse makes of a value: NaN becomes null
JSON(x) == IF x = NaN THEN Null ELSE x

\* res.json(data) on the server, response.json() in the client
JSONBody(data) ==
    IF "temperature" \in DOMAIN data
    THEN [temperature |-> JSON(data.temperature),
          timestamp |-> JSON(data.timestamp),
          unit |-> Str(data.unit),
          error |-> JSON(data.error)]
    ELSE [temperature |-> Null, timestamp |-> Null, unit |-> Null, error |-> data.error]

\* response.ok
Ok(status) == status \in 200..299

\* temp.toFixed(1) of v thousandths: the nearest tenth.  A tie (v % 100 = 50)
\* goes by the binary value of the number; the readings of this model have none.
toFixed1(v) ==
    LET tenths == (v + 50) \div 100
    IN  ToString(tenths \div 10) \o "." \o ToString(tenths % 10)

\* No element with id server-temp-display in the document
NoElement == [exists |-> FALSE, innerHTML |-> "", title |-> ""]

\* createTemperatureElement (lines 93-117); ping: the document has #current-ping
createTemperatureElement(d, ping) ==
    IF ~ping THEN d
    ELSE [exists |-> TRUE, innerHTML |-> "Server: Loading...", title |-> ""]

\* Mutant: a failed poll leaves the text of the element as it is
updateTemperatureDisplayKeepingText(d, ping, temp, unit, error, t) ==
    LET el == IF ~d.exists THEN createTemperatureElement(d, ping) ELSE d
    IN  IF ~el.exists THEN el
        ELSE IF temp # Null /\ ~isNaN(temp)
        THEN [el EXCEPT !.innerHTML = "Server: " \o toFixed1(temp.v) \o "°"
                                          \o (IF Truthy(unit) THEN unit.s ELSE "C"),
                        !.title = "Last updated: " \o ToString(t)]
        ELSE IF Truthy(error) THEN [el EXCEPT !.title = "Error: " \o error.s] ELSE el

\* updateTemperatureDisplay (lines 62-88), at time t
updateTemperatureDisplay(d, ping, temp, unit, error, t) ==
    LET el == IF ~d.exists THEN createTemperatureElement(d, ping) ELSE d
    IN  IF ~el.exists THEN el
        ELSE IF temp # Null /\ ~isNaN(temp)
        THEN [el EXCEPT !.innerHTML = "Server: " \o toFixed1(temp.v) \o "°"
                                          \o (IF Truthy(unit) THEN unit.s ELSE "C"),
                        !.title = "Last updated: " \o ToString(t)]
        ELSE LET blank == [el EXCEPT !.innerHTML = ""]
             IN  IF Truthy(error) THEN [blank EXCEPT !.title = "Error: " \o error.s] ELSE blank

\* The promise chain of fetchTemperature (lines 39-55) on a settled fetch: the
\* arguments it calls updateTemperatureDisplay with.  A rejected fetch and a
\* response that is not OK both end in the catch handler.
fetchTemperatureThen(result) ==
    IF result.kind = "rejected"
    THEN [temp |-> Null, unit |-> Null, error |-> Str(result.message)]
    ELSE IF ~Ok(result.status)
    THEN [temp |-> Null, unit |-> Null, error |-> Str("Failed to fetch temperature")]
    ELSE [temp |-> result.body.temperature,
          unit |-> result.body.unit,
          error |-> result.body.error]

----------------------------------------------------------------------------
\* Inputs

\* What the child process of a probe can print
VcgencmdOutputs ==
    { <<>>,
      <<"t", "e", "m", "p", "=", "4", "5", ".", "6", "'", "C", "\n">>,
      <<"t", "e", "m", "p", "=", ".", "'", "C", "\n">>,
      <<"V", "C", "H", "I", " ", "e", "r", "r", "o", "r", "\n">> }

ThermalZoneOutputs ==
    { <<>>,
      <<"4", "2", "1", "2", "3", "\n">>,
      <<"n", "/", "a", "\n">> }

SensorsOutputs ==
    { <<>>,
      <<"C", "o", "r", "e", " ", "0", ":", " ", " ", "+", "3", "8", ".", "0", "°", "C", " ", "\n">>,
      <<"t", "e", "m", "p", "1", ":", " ", "+", "3", "8", ".", "0", "°", "C", "\n">> }

Outputs(m) ==
    CASE m = "vcgencmd" -> VcgencmdOutputs
      [] m = "thermal_zone" -> ThermalZoneOutputs
      [] m = "sensors" -> SensorsOutputs

\* A child process that ends well hands over its output; one that fails hands
\* over an Error, with whatever it printed before.
ExecResults(m) ==
    {[error |-> Null, stdout |-> o] : o \in Outputs(m)}
        \cup {[error |-> Str("Command failed"), stdout |-> o] : o \in Outputs(m)}

\* The time at which an event runs: the clock never runs backwards.
ClockReadings == now..MaxNow

\* The X-Plugin-Name header of a request; Null when it has none
Headers == {Null, Str(""), Str("ServerTempPlugin"), Str("servertempplugin")}

\* The header a request of the client reaches the handler with: the one it
\* sent, or none when an intermediary has dropped it
FetchHeaders == {ClientHeader, Null}

\* The message of the TypeError a fetch is rejected with
RejectMessages == {"Failed to fetch"}

----------------------------------------------------------------------------
\* The state machine

\* Lines 23-43, before the top level of the module has run
Init ==
    /\ pc = "load"
    /\ consoleLogged = FALSE
    /\ temperatureSupported = TRUE
    /\ updateIntervalId = Null
    /\ failedMethods = [m \in Methods |-> FALSE]
    /\ workingMethod = NoMethod
    /\ currentTemperature = [temperature |-> Null, timestamp |-> Null, unit |-> "C", error |-> Null]
    /\ pending = {}
    /\ now = 0
    /\ logs = {}
    /\ response = [seq |-> 0, header |-> Null, status |-> 0, json |-> Null]
    /\ cycles = <<>>
    /\ firstResult = "none"
    /\ reportedFailure = {}
    /\ disabledRecord = Null
    /\ polls = 0
    /\ fetches = EmptyBag
    /\ display = NoElement
    /\ lastPoll = [seq |-> 0, result |-> Null]

Commit(s) ==
    /\ consoleLogged' = s.consoleLogged
    /\ temperatureSupported' = s.temperatureSupported
    /\ updateIntervalId' = s.updateIntervalId
    /\ failedMethods' = s.failedMethods
    /\ workingMethod' = s.workingMethod
    /\ currentTemperature' = s.currentTemperature
    /\ pending' = s.pending
    /\ now' = s.now
    /\ logs' = s.logs
    /\ cycles' = s.cycles
    /\ firstResult' = s.firstResult
    /\ reportedFailure' = s.reportedFailure
    /\ disabledRecord' = s.disabledRecord

\* The top level of the module (lines 227-253): the endpoint is registered
\* (the host's router is taken to load, so the catch branch is not entered),
\* updateTemperature() is called once and the timer is armed.
Startup ==
    /\ pc = "load"
    /\ pc' = "running"
    /\ LET s1 == Log(St, "info", "API endpoint registered at /server_temp")
           s2 == LogOnce(s1, "info", "Server Temperature Monitor started")
           s3 == updateTemperature(s2)
           s4 == [s3 EXCEPT !.updateIntervalId = Str("timer")]
       IN  Commit(Log(s4, "info", "Temperature will be updated every 10.0 minutes"))
    /\ UNCHANGED <<response, client>>

\* The interval timer fires (line 251), at time t
TimerTick(t) ==
    /\ pc = "running"
    /\ updateIntervalId # Null
    /\ Commit(updateTemperature([St EXCEPT !.now = t]))
    /\ UNCHANGED <<pc, response, client>>

\* The child process of a pending exec ends and exec runs its callback
ExecCallback(p, r, t) ==
    /\ p \in pending
    /\ LET out == Probe(p.method, r)
           s1 == [St EXCEPT !.now = t,
                            !.pending = @ \ {p},
                            !.cycles[p.cycle].outcomes =
                                Append(@, [error |-> out.error, temp |-> out.temp]),
                            !.reportedFailure = IF out.error # Null THEN @ \cup {p.method} ELSE @]
           s2 == LogOnce(s1, out.level, out.msg)
       IN  Commit(IF p.via = "chain"
                  THEN tryNextMethodCallback(s2, p.cycle, p.method, out.error, out.temp)
                  ELSE updateTemperatureCallback(s2, p.cycle, out.error, out.temp))
    /\ UNCHANGED <<pc, response, client>>

\* A request to GET /server_temp is answered
HttpGet(header) ==
    /\ pc = "running"
    /\ response.seq < MaxRequests
    /\ response' = [seq |-> response.seq + 1, header |-> header]
                       @@ ServerTempHandler(header, currentTemperature)
    /\ UNCHANGED <<pc, consoleLogged, temperatureSupported, updateIntervalId, failedMethods,
                   workingMethod, currentTemperature, pending, now, logs, cycles,
                   firstResult, reportedFailure, disabledRecord, client>>

Next ==
    \/ Startup
    \/ Len(cycles) < MaxCycles /\ \E t \in ClockReadings : TimerTick(t)
    \/ \E p \in pending : \E r \in ExecResults(p.method) : \E t \in ClockReadings :
           ExecCallback(p, r, t)
    \/ \E header \in Headers : HttpGet(header)

Spec == Init /\ [][Next]_vars

\* The same program while no request arrives and within one reading of the
\* clock, which leaves room for more cycles.
NextQuiet ==
    \/ Startup
    \/ Len(cycles) < MaxCyclesQuiet /\ TimerTick(now)
    \/ \E p \in pending : \E r \in ExecResults(p.method) : ExecCallback(p, r, now)

SpecQuiet == Init /\ [][NextQuiet]_vars

\* The program while no request arrives and within one reading of the clock,
\* when child processes end: as long as an exec is pending, one of those
\* pending calls back in the end.
SomeCallback == \E p \in pending : \E r \in ExecResults(p.method) : ExecCallback(p, r, now)

NextFair ==
    \/ Startup
    \/ Len(cycles) < MaxCyclesFair /\ TimerTick(now)
    \/ SomeCallback

SpecFair == Init /\ [][NextFair]_vars /\ WF_vars(SomeCallback)

\* The client.  Init is the state after init() has armed its timers (lines
\* 132-135); nothing ties a timer to the settling of an earlier fetch.  The
\* client is followed through the first interval of the server, in which the
\* cycle started at startup runs, and within one reading of the clock.
server == <<pc, consoleLogged, temperatureSupported, updateIntervalId, failedMethods,
            workingMethod, currentTemperature, pending, now, logs, response,
            cycles, firstResult, reportedFailure, disabledRecord>>

Sent == [stage |-> "sent"]

\* A timer of the client fires: fetchTemperature sends its request (lines 33-38)
fetchTemperature ==
    /\ polls' = polls + 1
    /\ fetches' = fetches (+) SetToBag({Sent})
    /\ UNCHANGED <<server, display, lastPoll>>

\* The request of a fetch reaches GET /server_temp with header h and is answered
ServerAnswers(h) ==
    /\ pc = "running"
    /\ BagIn(Sent, fetches)
    /\ LET a == ServerTempHandler(h, currentTemperature)
       IN  fetches' = (fetches (-) SetToBag({Sent}))
                          (+) SetToBag({[stage |-> "answered", status |-> a.status,
                                         body |-> JSONBody(a.json)]})
    /\ UNCHANGED <<server, polls, display, lastPoll>>

\* The promise chain of a settled fetch runs (lines 39-55) and updates the display
Process(result, ping) ==
    LET a == fetchTemperatureThen(result)
    IN  /\ display' = updateTemperatureDisplay(display, ping, a.temp, a.unit, a.error, now)
        /\ lastPoll' = [seq |-> lastPoll.seq + 1, result |-> result]

\* A fetch is rejected: the request or its response is lost
FetchRejected(message, ping) ==
    /\ BagIn(Sent, fetches)
    /\ fetches' = fetches (-) SetToBag({Sent})
    /\ Process([kind |-> "rejected", message |-> message], ping)
    /\ UNCHANGED <<server, polls>>

\* The response f of a fetch arrives
ResponseArrives(f, ping) ==
    /\ BagIn(f, fetches)
    /\ f.stage = "answered"
    /\ fetches' = fetches (-) SetToBag({f})
    /\ Process([kind |-> "response", status |-> f.status, body |-> f.body], ping)
    /\ UNCHANGED <<server, polls>>

NextClient ==
    \/ Startup
    \/ SomeCallback
    \/ polls < MaxPolls /\ fetchTemperature
    \/ \E h \in FetchHeaders : ServerAnswers(h)
    \/ \E message \in RejectMessages : \E ping \in BOOLEAN : FetchRejected(message, ping)
    \/ \E f \in BagToSet(fetches) : \E ping \in BOOLEAN : ResponseArrives(f, ping)

SpecClient == Init /\ [][NextClient]_vars

----------------------------------------------------------------------------
\* Vocabulary of the properties

Last(q) == q[Len(q)]

\* The cycles started, and those that have handed a result to updateTemperature's callback
Started == 1..Len(cycles)
Done == {c \in Started : cycles[c].results # <<>>}

\* The cycles with a probe pending
InFlight == {p.cycle : p \in pending}

\* The scheduler states of the specification
Disabled == ~temperatureSupported /\ updateIntervalId = Null
Active == temperatureSupported /\ updateIntervalId # Null

\* In this step ...
\* ... a cycle is started (readTemperature is called)
StartsCycle == Len(cycles') > Len(cycles)
\* ... cycle c hands a result to updateTemperature's callback
Completes(c) == cycles'[c].results # <<>> /\ (c \in Started => cycles[c].results = <<>>)
\* ... these probes are invoked (exec is called), these call back
Invoked == pending' \ pending
CalledBack == pending \ pending'
\* ... a request is answered
Answered == response'.seq # response.seq

\* The priority order of the probes, and the first of them not in failed
Priority == <<"vcgencmd", "thermal_zone", "sensors">>
Unfailed(failed) == {i \in 1..3 : ~failed[Priority[i]]}
FirstUnfailed(failed) == Priority[CHOOSE i \in Unfailed(failed) : \A j \in Unfailed(failed) : i <= j]

----------------------------------------------------------------------------
\* C1: once a cycle has completed, exactly one of temperature and error of the
\* cache record is non-null; until then temperature, error and timestamp are
\* all null.
C1_ExactlyOnePopulated ==
    LET hasTemp == currentTemperature.temperature # Null
        hasError == currentTemperature.error # Null
    IN  /\ Done # {} => (hasTemp /\ ~hasError) \/ (~hasTemp /\ hasError)
        /\ Done = {} => ~hasTemp /\ ~hasError /\ currentTemperature.timestamp = Null

\* A reading has been cached and then replaced by a failure
C1_Witness ==
    /\ \E c \in Done : cycles[c].results = <<"ok">>
    /\ currentTemperature.error # Null
    /\ currentTemperature.temperature = Null

\* C2: if the first cycle to complete fails, the scheduler is Disabled; while
\* temperatureSupported is false it stays false, the timer stays cancelled, no
\* cycle is started and no probe is invoked.
C2_FirstFailureDisables ==
    /\ [](firstResult = "error" => Disabled)
    /\ [][~temperatureSupported =>
            /\ ~temperatureSupported'
            /\ updateIntervalId' = Null
            /\ ~StartsCycle
            /\ Invoked = {}]_vars

\* Disabled by the first cycle, with cycles to spare
C2_Witness == firstResult = "error" /\ Disabled /\ Len(cycles) < MaxCycles

\* C3 (as stated): while the scheduler is Disabled the cache holds the failure
\* record of the disabling cycle, and every authorised request is answered with it.
C3_CacheFrozenWhenDisabled ==
    /\ [](~temperatureSupported =>
            /\ currentTemperature = disabledRecord
            /\ currentTemperature.temperature = Null
            /\ currentTemperature.error # Null)
    /\ [][~temperatureSupported /\ Answered /\ response'.header = Str("ServerTempPlugin") =>
            response'.json = disabledRecord]_vars

\* C4: if the first cycle to complete succeeds, the scheduler stays Active for
\* good, and a cycle that fails later writes an error record to the cache.
C4_LaterFailureKeepsActive ==
    /\ [](firstResult = "ok" => Active)
    /\ [][\A c \in 1..Len(cycles') :
            firstResult = "ok" /\ Completes(c) /\ Last(cycles'[c].results) = "error" =>
                /\ currentTemperature'.temperature = Null
                /\ currentTemperature'.error # Null
                /\ Active']_vars

\* The first cycle succeeded, a later one failed, and the timer is still armed
C4_Witness ==
    /\ firstResult = "ok"
    /\ \E c \in Done : cycles[c].results = <<"error">>
    /\ currentTemperature.error # Null
    /\ Active

\* C5 (as stated): a cycle started with a working method invokes that probe and
\* no other, and once a working method is set no other probe is ever invoked.
C5_OnlyWorkingMethodInvoked ==
    /\ [](\A c \in Started : cycles[c].wm # NoMethod => cycles[c].probes = <<cycles[c].wm>>)
    /\ [][workingMethod # NoMethod => \A p \in Invoked : p.method = workingMethod]_vars

\* C6: a request whose X-Plugin-Name header is not exactly ServerTempPlugin is
\* answered 403 {error: 'Unauthorised'}; one whose header is, with the cache
\* record; neither changes the cache, failedMethods, workingMethod or
\* temperatureSupported.
C6_EndpointGate ==
    [][Answered =>
        /\ IF response'.header = Str("ServerTempPlugin")
           THEN response'.status = 200 /\ response'.json = currentTemperature
           ELSE response'.status = 403 /\ response'.json = [error |-> Str("Unauthorised")]
        /\ UNCHANGED <<currentTemperature, failedMethods, workingMethod, temperatureSupported>>]_vars

\* An authorised request answered with the failure record of a Disabled scheduler
C6_Witness ==
    /\ response.seq > 0
    /\ response.status = 200
    /\ response.json = currentTemperature
    /\ currentTemperature.error # Null
    /\ Disabled

\* C7: a method marked failed stays marked, and a marked method has had a
\* probe invocation report a failure.
C7_FailedMethodsGrow ==
    /\ [][\A m \in Methods : failedMethods[m] => failedMethods'[m]]_vars
    /\ [](\A m \in Methods : failedMethods[m] => m \in reportedFailure)

\* Two methods marked, one after the other, the third not
C7_Witness ==
    /\ failedMethods["vcgencmd"]
    /\ failedMethods["thermal_zone"]
    /\ ~failedMethods["sensors"]

\* C8 (as stated): at most one cycle has a probe pending, and no cycle is
\* started while a probe is pending.
C8_OneCycleInFlight ==
    /\ [](Cardinality(InFlight) <= 1)
    /\ [][StartsCycle => pending = {}]_vars

\* C9 (as stated): when the probe of a cycle started with a working method
\* fails, workingMethod and failedMethods are left alone, no probe is invoked
\* and the cycle completes with an error record; every cycle started after
\* that invokes the same probe.
C9_FailedWorkingMethodReplayed ==
    /\ [][\A p \in CalledBack :
            p.via = "direct" /\ Last(cycles'[p.cycle].outcomes).error # Null =>
                /\ workingMethod' = workingMethod
                /\ failedMethods' = failedMethods
                /\ Invoked = {}
                /\ Completes(p.cycle)
                /\ currentTemperature'.temperature = Null
                /\ currentTemperature'.error # Null]_vars
    /\ [][\A c \in Done :
            cycles[c].wm # NoMethod /\ cycles[c].results = <<"error">> /\ StartsCycle =>
                Last(cycles').probes = <<cycles[c].wm>>]_vars

\* C10: without a working method the probes are invoked in the order vcgencmd,
\* thermal_zone, sensors, past those marked failed; a success makes the probe
\* the working method and ends the cycle with its value; a failure marks the
\* probe and goes on to the next unmarked one.
C10_FallbackChain ==
    [][/\ StartsCycle /\ workingMethod = NoMethod /\ Unfailed(failedMethods) # {} =>
            Invoked = {[cycle |-> Len(cycles'),
                        method |-> FirstUnfailed(failedMethods),
                        via |-> "chain"]}
       /\ \A p \in Invoked : p.via = "chain" =>
            /\ cycles'[p.cycle].wm = NoMethod
            /\ p.method = "thermal_zone" => failedMethods'["vcgencmd"]
            /\ p.method = "sensors" => failedMethods'["vcgencmd"] /\ failedMethods'["thermal_zone"]
            /\ p.method = FirstUnfailed(failedMethods')
       /\ \A p \in CalledBack : p.via = "chain" =>
            LET out == Last(cycles'[p.cycle].outcomes)
            IN  IF out.error = Null
                THEN /\ workingMethod' = p.method
                     /\ Completes(p.cycle)
                     /\ cycles'[p.cycle].results = <<"ok">>
                     /\ currentTemperature'.temperature = out.temp
                     /\ failedMethods' = failedMethods
                     /\ Invoked = {}
                ELSE /\ failedMethods' = [failedMethods EXCEPT ![p.method] = TRUE]
                     /\ workingMethod' = workingMethod
                     /\ IF Unfailed(failedMethods') # {}
                        THEN Invoked = {[cycle |-> p.cycle,
                                         method |-> FirstUnfailed(failedMethods'),
                                         via |-> "chain"]}
                        ELSE Invoked = {} /\ Completes(p.cycle)]_vars

\* A cycle that went down the whole chain and found the last probe working
C10_Witness ==
    \E c \in Done :
        /\ cycles[c].wm = NoMethod
        /\ cycles[c].probes = Priority
        /\ cycles[c].results = <<"ok">>
        /\ workingMethod = "sensors"

\* The error of a cycle that found no method left
Exhausted == Str("Unable to read temperature from system")
AllFailed(failed) == \A m \in Methods : failed[m]

\* C11 (as stated): a cycle reports the exhaustion error only where all three
\* methods are marked failed and no working method is set, and a cycle started
\* there reports it without invoking a probe.
C11_ExhaustionOnlyWhenNoneLeft ==
    [][/\ \A c \in 1..Len(cycles') :
            Completes(c) /\ currentTemperature'.error = Exhausted =>
                AllFailed(failedMethods') /\ workingMethod' = NoMethod
       /\ StartsCycle /\ AllFailed(failedMethods) /\ workingMethod = NoMethod =>
            /\ Invoked = {}
            /\ Completes(Len(cycles'))
            /\ currentTemperature'.error = Exhausted]_vars

\* C12: when every probe calls back, a started cycle completes; it hands over
\* one result, and the step that does so is the one cache write of the cycle;
\* it invokes no probe twice, so three at most.
C12_CycleCompletesOnce ==
    /\ \A c \in 1..MaxCyclesFair : [](c \in Started => <>(c \in Done))
    /\ [](\A c \in Started :
            /\ Len(cycles[c].results) <= 1
            /\ Len(cycles[c].probes) <= 3
            /\ \A i, j \in 1..Len(cycles[c].probes) :
                 cycles[c].probes[i] = cycles[c].probes[j] => i = j)
    /\ [][/\ Cardinality({c \in 1..Len(cycles') : Completes(c)}) <= 1
          /\ \A c \in 1..Len(cycles') : Completes(c) =>
                /\ currentTemperature'.timestamp = Num(now')
                /\ (currentTemperature'.error = Null) = (cycles'[c].results = <<"ok">>)
          /\ currentTemperature' # currentTemperature => \E c \in 1..Len(cycles') : Completes(c)]_vars

\* A cycle that invoked all three probes has completed
C12_Witness ==
    \E c \in Done : Len(cycles[c].probes) = 3 /\ Len(cycles[c].results) = 1 /\ pending = {}

\* C13: the cache is the initial record until a cycle completes; it changes
\* only in a step in which a cycle completes, and then all its fields are those
\* of that cycle: its reading or its error, the time of its completion, the
\* unit.  A reader, the export or an authorised request, gets that record whole.
C13_CacheReplacedWhole ==
    /\ [](Done = {} =>
            getTemperatureData = [temperature |-> Null, timestamp |-> Null,
                                  unit |-> "C", error |-> Null])
    /\ [][/\ currentTemperature' # currentTemperature => \E c \in 1..Len(cycles') : Completes(c)
          /\ \A c \in 1..Len(cycles') : Completes(c) =>
                getTemperatureData' =
                    IF cycles'[c].results = <<"ok">>
                    THEN [temperature |-> Last(cycles'[c].outcomes).temp,
                          timestamp |-> Num(now'), unit |-> "C", error |-> Null]
                    ELSE [temperature |-> Null, timestamp |-> Num(now'), unit |-> "C",
                          error |-> IF cycles'[c].wm # NoMethod
                                    THEN Last(cycles'[c].outcomes).error
                                    ELSE Exhausted]
          /\ Answered /\ response'.status = 200 => response'.json = getTemperatureData]_vars

\* A request answered with the reading of the second cycle to complete
C13_Witness ==
    /\ Cardinality(Done) = 2
    /\ response.status = 200
    /\ response.json = currentTemperature
    /\ currentTemperature.temperature # Null
    /\ currentTemperature.timestamp = Num(1)

\* C14 (as stated): no message is logged once consoleLogged is true, that is,
\* after the first cycle has completed.
C14_LogsOnlyInFirstCycle == \A e \in logs : ~e.late

\* C15: once the client has processed a poll result, the display element (when
\* the page has one) reflects that result.  After a rejected fetch, a response
\* that is not OK, or a null temperature, its text is empty and, when there is
\* an error message, its tooltip shows that message ("Error: <message>").
\* After a numeric temperature its text is "Server: <value to one
\* decimal>°<unit>"; a reading of 38.0 shows as "Server: 38.0°C".
C15_DisplayReflectsPoll ==
    lastPoll.seq > 0 /\ display.exists =>
        LET r == lastPoll.result
            rejected == r.kind = "rejected"
            notOk == ~rejected /\ ~Ok(r.status)
            message == IF rejected THEN Str(r.message)
                       ELSE IF notOk THEN Str("Failed to fetch temperature")
                       ELSE r.body.error
        IN  IF rejected \/ notOk \/ r.body.temperature = Null
            THEN /\ display.innerHTML = ""
                 /\ Truthy(message) => display.title = "Error: " \o message.s
            ELSE /\ display.innerHTML =
                        "Server: " \o toFixed1(r.body.temperature.v) \o "°" \o r.body.unit.s
                 /\ r.body.temperature = Num(38000) => display.innerHTML = "Server: 38.0°C"
                 /\ r.body.temperature = Num(42123) => display.innerHTML = "Server: 42.1°C"

\* A reading has been displayed and a later poll, answered 403, has blanked it
C15_Witness ==
    /\ lastPoll.seq = 2
    /\ lastPoll.result.kind = "response"
    /\ lastPoll.result.status = 403
    /\ display.exists
    /\ display.innerHTML = ""
    /\ display.title = "Error: Failed to fetch temperature"
    /\ currentTemperature.temperature = Num(45600)

\* C16 (as stated): workingMethod is never a probe marked in failedMethods.
C16_WorkingMethodNotFailed ==
    workingMethod # NoMethod => ~failedMethods[workingMethod]

\* C17 (as stated): once workingMethod is set to a probe, no step clears it or
\* sets it to another probe.
C17_WorkingMethodStable ==
    [][workingMethod # NoMethod => workingMethod' = workingMethod]_vars

\* C18 (as stated): while the scheduler is disabled, all three probes are
\* marked in failedMethods and workingMethod is unset.
C18_DisabledMeansExhausted ==
    ~temperatureSupported => AllFailed(failedMethods) /\ workingMethod = NoMethod

\* C19: whenever the cache holds a temperature, workingMethod is set: a reading
\* is recorded only by a cycle that found a working method or has just
\* memoized one.
C19_ReadingImpliesWorkingMethod ==
    currentTemperature.temperature # Null =>
        workingMethod \in Methods /\ \E c \in Done : cycles[c].results = <<"ok">>

\* The third probe of the chain has produced the cached reading
C19_Witness ==
    /\ currentTemperature.temperature = Num(38000)
    /\ workingMethod = "sensors"
    /\ failedMethods["vcgencmd"] /\ failedMethods["thermal_zone"]

====
